---- MODULE Spec2Model ----
(***************************************************************************)
(* State-machine model of the end-to-end test harness session wrapper      *)
(* (src/src/session.js, class RiotSession) together with the parts of its  *)
(* environment its contracts talk about: the browser and page event        *)
(* emitters, the timers, the DOM seen through one selector, one text       *)
(* input, and the two LogBuffers wired by the constructor.                 *)
(*                                                                         *)
(* Every piece of state is a function over Sessions: a RiotSession keeps   *)
(* its state in its own fields (this.browser, this.page, this.consoleLog,  *)
(* this.networkLog) and in the closures of its pending promises.           *)
(***************************************************************************)
EXTENDS Naturals, Sequences, FiniteSets, TLC

(* ------------------------------ bounds --------------------------------- *)
\* sessions created by the driver (Init builds them all)
NumSessions == 2
\* the clock runs 0..MaxTime
MaxTime == 2
\* timeouts passed to the wait operations are 1..MaxTimeout
MaxTimeout == 2
\* waitForReload / waitForNewPage calls per session
MaxCalls == 2
\* targets the browser creates per session
MaxTargets == 2
\* events delivered to each LogBuffer
MaxLog == 2
\* elements of the page that the selector under test can match
MaxElems == 2
\* length of an input value and of a text typed into it
MaxLen == 2
\* close() calls per session
MaxClose == 2
\* calls plus environment events of one session in the whole-session run
MaxActivity == 2
MaxCreate == 2
MaxXhr == 1

Sessions == 1..NumSessions
\* the session the single-session specifications drive
Solo == {1}
Timeouts == 1..MaxTimeout
Calls == 1..MaxCalls
Elems == 1..MaxElems
Chars == {"a", "b"}
Urls == {"/#/home", "/#/room"}

VARIABLES
    now,          \* the host's clock (setTimeout's time base)
    browser,      \* browser[s]: the browser process: "open", "closing", "closed"
    closeCalls,   \* closeCalls[s]: how many times close() reached browser.close()
    closeSeen,    \* closeSeen[s]: the state the browser was in at each close() call
    lastOp,       \* lastOp[s]: the outcome of the latest query/goto call
    dom,          \* dom[s][e]: element e is "absent", "hidden" or "visible"
    wqa,          \* wqa[s]: the waitAndQueryAll call of the session
    reload,       \* reload[s][c]: the c-th waitForReload call
    pageDCL,      \* pageDCL[s]: 'domcontentloaded' listeners on the page, in order
    newPage,      \* newPage[s][c]: the c-th waitForNewPage call
    browserTC,    \* browserTC[s]: 'targetcreated' listeners on the browser, in order
    targets,      \* targets[s]: the types of the targets created so far
    uncaught,     \* uncaught[s]: exceptions and rejections nobody handled
    consoleSeen,  \* consoleSeen[s]: console messages delivered, in order
    consoleBuf,   \* consoleBuf[s]: this.consoleLog.buffer
    logListeners, \* logListeners[s]: the page events the LogBuffers listen to
    netSeen,      \* netSeen[s]: finished requests delivered, in order
    netPending,   \* netPending[s]: deliveries whose formatter awaits req.response()
    netFailed,    \* netFailed[s]: deliveries whose formatter raised
    networkBuf,   \* networkBuf[s]: this.networkLog.buffer
    xhr,          \* xhr[s]: the listeners logXHRRequests() added, each with its buffer
    input,        \* input[s]: the text input: value, selection, caret
    rit,          \* rit[s]: the replaceInputText call of the session
    create,       \* the RiotSession.create call and the session it hands back
    urlCall,      \* the latest url(path) call on that session and what it returned
    htmlOp        \* htmlOp[s]: the latest innerText/getOuterHTML/printElements call

vars == <<now, browser, closeCalls, closeSeen, lastOp, dom, wqa, reload, pageDCL,
          newPage, browserTC, targets, uncaught, logListeners, consoleSeen,
          consoleBuf, netSeen, netPending, netFailed, networkBuf, xhr, input,
          rit, create, urlCall, htmlOp>>

lifeVars == <<browser, closeCalls, closeSeen, lastOp>>
helperVars == <<create, urlCall, htmlOp>>
queryVars == <<dom, wqa>>
reloadVars == <<reload, pageDCL>>
newPageVars == <<newPage, browserTC, targets>>
logVars == <<logListeners, consoleSeen, consoleBuf, netSeen, netPending,
             netFailed, networkBuf, xhr>>
inputVars == <<input, rit>>

(* ------------------------------ helpers -------------------------------- *)
\* the methods of a Node EventEmitter; puppeteer's Browser and Page are
\* EventEmitters, so these are the methods session.js can call on them
EmitterMethods == {"on", "once", "addListener", "removeListener",
                   "removeAllListeners", "emit", "listeners"}

IsPrefix(p, q) == Len(p) <= Len(q) /\ SubSeq(q, 1, Len(p)) = p

Range(q) == {q[i] : i \in 1..Len(q)}

\* emitter.removeListener(event, f): the listeners without f
RECURSIVE Without(_, _)
Without(q, c) ==
    IF q = <<>> THEN <<>>
    ELSE IF Head(q) = c THEN Tail(q)
    ELSE <<Head(q)>> \o Without(Tail(q), c)

\* the engine's answer to a page operation, by the state of the browser
\* process: an open browser serves it, a closed one rejects it with the
\* engine's own error, one that is shutting down may do either
EngineAnswers(b) ==
    CASE b = "open" -> {"served"}
      [] b = "closing" -> {"served", "TargetClosed"}
      [] b = "closed" -> {"TargetClosed"}

\* a query or goto call: dcl says whether the navigation of a goto has
\* emitted 'domcontentloaded', afterClose whether close() came before the call
NoOp == [op |-> "none", outcome |-> "none", error |-> "none", value |-> 0,
         dcl |-> FALSE, afterClose |-> FALSE]

\* a set of element handles as the list the engine returns: document order
RECURSIVE SortedSeq(_)
SortedSeq(S) ==
    IF S = {} THEN <<>>
    ELSE LET m == CHOOSE x \in S : \A y \in S : x <= y
         IN <<m>> \o SortedSeq(S \ {m})

\* the elements of document d that the selector matches
Present(d) == {e \in Elems : d[e] # "absent"}
\* those of them that are visible (waitForSelector's {visible: true})
Visible(d) == {e \in Elems : d[e] = "visible"}
\* page.$(selector): the first match, or null (0)
FirstMatch(d) == IF Present(d) = {} THEN 0 ELSE Head(SortedSeq(Present(d)))

(* --------------------------- initial state ----------------------------- *)
\* deadline is the time an armed timer is due at, and 0 when none is armed;
\* timeout is the timeout the wait in progress was given, and 0 when no wait is
IdleWqa == [pc |-> "idle", deadline |-> 0, timeout |-> 0, error |-> "none",
            result |-> <<>>]
NoCall == [st |-> "none", timer |-> "none", deadline |-> 0, settles |-> 0,
           error |-> "none"]
NoPageCall == [st |-> "none", timer |-> "none", deadline |-> 0, settles |-> 0,
               error |-> "none", skipped |-> 0, tgt |-> 0, look |-> "none",
               result |-> 0]
EmptyInput == [value |-> <<>>, selFrom |-> 0, selTo |-> 0]
\* a create call: where it is, what it was given, and what it has made so far:
\* the browser process, the page, the page's viewport, the RiotSession with
\* the page events its LogBuffers listen to. attempt counts the calls,
\* launchErrors those of them whose browser did not start, and orphans the
\* browser processes left running that no RiotSession holds
NoCreate == [pc |-> "idle", error |-> "none", riotserver |-> "",
             proc |-> "none", page |-> "none", viewport |-> <<0, 0>>,
             session |-> FALSE, listeners |-> {}, attempt |-> 0,
             launchErrors |-> 0, orphans |-> 0]
NoUrlCall == [path |-> "", out |-> "", made |-> FALSE]
\* a call of innerText, getOuterHTML or printElements: its handles, the
\* property asked, the engine call it waits in, and how it ended
NoHtmlOp == [op |-> "none", arg |-> <<>>, property |-> "none",
             await |-> "none", outcome |-> "none", error |-> "none",
             value |-> <<>>]
IdleRit == [pc |-> "idle", text |-> <<>>, typed |-> 0, before |-> <<>>]

\* the state after RiotSession.create resolved for every session: browser
\* launched, page open, the two LogBuffers subscribed with empty buffers
Init ==
    /\ now = 0
    /\ browser = [s \in Sessions |-> "open"]
    /\ closeCalls = [s \in Sessions |-> 0]
    /\ closeSeen = [s \in Sessions |-> <<>>]
    /\ lastOp = [s \in Sessions |-> NoOp]
    /\ dom = [s \in Sessions |-> [e \in Elems |-> "absent"]]
    /\ wqa = [s \in Sessions |-> IdleWqa]
    /\ reload = [s \in Sessions |-> [c \in Calls |-> NoCall]]
    /\ pageDCL = [s \in Sessions |-> <<>>]
    /\ newPage = [s \in Sessions |-> [c \in Calls |-> NoPageCall]]
    /\ browserTC = [s \in Sessions |-> <<>>]
    /\ targets = [s \in Sessions |-> <<>>]
    /\ uncaught = [s \in Sessions |-> 0]
    /\ logListeners = [s \in Sessions |-> {"console", "requestfinished"}]
    /\ consoleSeen = [s \in Sessions |-> <<>>]
    /\ consoleBuf = [s \in Sessions |-> <<>>]
    /\ netSeen = [s \in Sessions |-> <<>>]
    /\ netPending = [s \in Sessions |-> {}]
    /\ netFailed = [s \in Sessions |-> {}]
    /\ networkBuf = [s \in Sessions |-> <<>>]
    /\ xhr = [s \in Sessions |-> <<>>]
    /\ input = [s \in Sessions |-> EmptyInput]
    /\ rit = [s \in Sessions |-> IdleRit]
    /\ create = NoCreate
    /\ urlCall = NoUrlCall
    /\ htmlOp = [s \in Sessions |-> NoHtmlOp]

(* ------------------------------ the clock ------------------------------ *)
Tick ==
    /\ now < MaxTime
    /\ now' = now + 1
    /\ UNCHANGED <<helperVars, lifeVars, queryVars, reloadVars, newPageVars,
                   uncaught, logVars, inputVars>>

(* ----------------- 'domcontentloaded' on the page ---------------------- *)
\* waitForReload's callback (lines 133-136) run for call record r:
\* clearTimeout(timeoutHandle); resolve()
ReloadCallback(r) ==
    [r EXCEPT !.timer = IF r.timer = "armed" THEN "cleared" ELSE r.timer,
              !.deadline = 0,
              !.st = IF r.st = "pending" THEN "resolved" ELSE r.st,
              !.settles = r.settles + 1]

\* page.emit('domcontentloaded'): every listener was registered with once,
\* so each is removed and then called
EmitDCL(s) ==
    /\ reload' = [reload EXCEPT ![s] =
                    [c \in Calls |-> IF c \in Range(pageDCL[s])
                                     THEN ReloadCallback(reload[s][c])
                                     ELSE reload[s][c]]]
    /\ pageDCL' = [pageDCL EXCEPT ![s] = <<>>]

(* ------------------- query, goto, close (lines 109-177) ---------------- *)
\* query(selector): return this.page.$(selector). The call hands back the
\* engine's promise at once; afterClose says whether close() had been
\* called by then
Query(s) ==
    /\ lastOp[s].outcome # "pending"
    /\ lastOp' = [lastOp EXCEPT ![s] =
          [NoOp EXCEPT !.op = "query", !.outcome = "pending",
                       !.afterClose = closeCalls[s] > 0]]
    /\ UNCHANGED <<now, helperVars, browser, closeCalls, closeSeen, queryVars,
                   reloadVars, newPageVars, uncaught, logVars, inputVars>>

\* the engine answers page.$: the first match in the document as it is
\* then, or the engine's error
QueryAnswer(s) ==
    /\ lastOp[s].op = "query" /\ lastOp[s].outcome = "pending"
    /\ \E a \in EngineAnswers(browser[s]) :
         lastOp' = [lastOp EXCEPT ![s] =
            [@ EXCEPT !.outcome = IF a = "served" THEN "resolved"
                                  ELSE "rejected",
                      !.error = IF a = "served" THEN "none" ELSE a,
                      !.value = IF a = "served" THEN FirstMatch(dom[s])
                                ELSE 0]]
    /\ UNCHANGED <<now, helperVars, browser, closeCalls, closeSeen, queryVars,
                   reloadVars, newPageVars, uncaught, logVars, inputVars>>

\* goto(url): return this.page.goto(url). The call hands back the engine's
\* promise at once
Goto(s, url) ==
    /\ lastOp[s].outcome # "pending"
    /\ lastOp' = [lastOp EXCEPT ![s] =
          [NoOp EXCEPT !.op = "goto", !.outcome = "pending",
                       !.afterClose = closeCalls[s] > 0]]
    /\ UNCHANGED <<now, helperVars, browser, closeCalls, closeSeen, queryVars,
                   reloadVars, newPageVars, uncaught, logVars, inputVars>>

\* the navigation is served and the document is parsed: the page emits
\* 'domcontentloaded'; page.goto has not answered yet
GotoDCL(s) ==
    /\ lastOp[s].op = "goto" /\ lastOp[s].outcome = "pending"
    /\ ~lastOp[s].dcl
    /\ "served" \in EngineAnswers(browser[s])
    /\ lastOp' = [lastOp EXCEPT ![s].dcl = TRUE]
    /\ EmitDCL(s)
    /\ UNCHANGED <<now, helperVars, browser, closeCalls, closeSeen, queryVars,
                   newPageVars, uncaught, logVars, inputVars>>

\* the engine answers page.goto: the document has loaded, or the
\* navigation failed in the engine, or the browser is gone
GotoAnswer(s) ==
    /\ lastOp[s].op = "goto" /\ lastOp[s].outcome = "pending"
    /\ \E a \in EngineAnswers(browser[s]) \cup {"NavigationError"} :
         /\ a = "NavigationError" => "served" \in EngineAnswers(browser[s])
         /\ a = "served" => lastOp[s].dcl
         /\ lastOp' = [lastOp EXCEPT ![s] =
               [@ EXCEPT !.outcome = IF a = "served" THEN "resolved"
                                     ELSE "rejected",
                         !.error = IF a = "served" THEN "none" ELSE a]]
    /\ UNCHANGED <<now, helperVars, browser, closeCalls, closeSeen, queryVars,
                   reloadVars, newPageVars, uncaught, logVars, inputVars>>

\* a close() that also empties the two log buffers
CloseClearsLogs(s) ==
    /\ Len(closeSeen[s]) < MaxClose
    /\ closeSeen' = [closeSeen EXCEPT ![s] = Append(@, browser[s])]
    /\ closeCalls' = [closeCalls EXCEPT ![s] = @ + 1]
    /\ browser' = [browser EXCEPT ![s] = IF @ = "open" THEN "closing" ELSE @]
    /\ consoleBuf' = [consoleBuf EXCEPT ![s] = <<>>]
    /\ networkBuf' = [networkBuf EXCEPT ![s] = <<>>]
    /\ UNCHANGED <<now, helperVars, lastOp, queryVars, reloadVars,
                   newPageVars, uncaught, logListeners, consoleSeen, netSeen,
                   netPending, netFailed, xhr, inputVars>>

\* a close() of one browser that every session shares
CloseAll(s) ==
    /\ Len(closeSeen[s]) < MaxClose
    /\ closeSeen' = [closeSeen EXCEPT ![s] = Append(@, browser[s])]
    /\ closeCalls' = [closeCalls EXCEPT ![s] = @ + 1]
    /\ browser' = [t \in Sessions |->
                      IF browser[t] = "open" THEN "closing" ELSE browser[t]]
    /\ UNCHANGED <<now, helperVars, lastOp, queryVars, reloadVars, newPageVars,
                   uncaught, logVars, inputVars>>

\* a close() that remembers it was called and forwards only the first call
CloseOnce(s) ==
    /\ Len(closeSeen[s]) < MaxClose
    /\ closeSeen' = [closeSeen EXCEPT ![s] = Append(@, browser[s])]
    /\ closeCalls' = [closeCalls EXCEPT ![s] = IF @ = 0 THEN 1 ELSE @]
    /\ browser' = [browser EXCEPT ![s] = IF @ = "open" THEN "closing" ELSE @]
    /\ UNCHANGED <<now, helperVars, lastOp, queryVars, reloadVars,
                   newPageVars, uncaught, logVars, inputVars>>

\* close(): return this.browser.close(), whatever state the browser is in
Close(s) ==
    /\ Len(closeSeen[s]) < MaxClose
    /\ closeSeen' = [closeSeen EXCEPT ![s] = Append(@, browser[s])]
    /\ closeCalls' = [closeCalls EXCEPT ![s] = @ + 1]
    /\ browser' = [browser EXCEPT ![s] = IF @ = "open" THEN "closing" ELSE @]
    /\ UNCHANGED <<now, helperVars, lastOp, queryVars, reloadVars,
                   newPageVars, uncaught, logVars, inputVars>>

\* the browser process, told to close, exits
BrowserExit(s) ==
    /\ browser[s] = "closing"
    /\ browser' = [browser EXCEPT ![s] = "closed"]
    /\ UNCHANGED <<now, helperVars, closeCalls, closeSeen, lastOp, queryVars,
                   reloadVars, newPageVars, uncaught, logVars, inputVars>>

\* the page reloads on its own (the application navigates)
PageLoad(s) ==
    /\ browser[s] = "open"
    /\ EmitDCL(s)
    /\ UNCHANGED <<now, helperVars, lifeVars, queryVars, newPageVars,
                   uncaught, logVars, inputVars>>

(* ---------------------- waitForReload (lines 126-140) ------------------ *)
\* the next call id not used yet (calls are numbered in the order made)
NextCall(f) == CHOOSE c \in Calls : f[c].st = "none" /\ \A d \in 1..(c-1) : f[d].st # "none"

\* waitForReload(timeout): the executor arms the timer (line 128) and
\* registers the callback with this.page.once (line 138)
WaitForReload(s, t) ==
    /\ \E c \in Calls : reload[s][c].st = "none"
    /\ LET c == NextCall(reload[s]) IN
         /\ reload' = [reload EXCEPT ![s][c] =
               [NoCall EXCEPT !.st = "pending", !.timer = "armed",
                              !.deadline = now + t]]
         /\ pageDCL' = [pageDCL EXCEPT ![s] = Append(@, c)]
    /\ UNCHANGED <<now, helperVars, lifeVars, queryVars, newPageVars,
                   uncaught, logVars, inputVars>>

\* the timer callback of call c (lines 128-131):
\*   this.browser.removeEventListener('domcontentloaded', callback); reject(...)
\* The browser is an EventEmitter: calling a method it does not have throws
\* a TypeError out of the timer callback, before reject is reached.
ReloadTimerFire(s, c) ==
    /\ reload[s][c].timer = "armed"
    /\ now >= reload[s][c].deadline
    /\ IF "removeEventListener" \in EmitterMethods
       THEN \* removes the callback from the browser's listeners (it is
            \* registered on the page, not there), then rejects
            /\ reload' = [reload EXCEPT ![s][c] =
                  [@ EXCEPT !.timer = "fired",
                            !.deadline = 0,
                            !.st = IF @ = "pending" THEN "rejected" ELSE @,
                            !.settles = @ + 1,
                            !.error = "timeout"]]
            /\ UNCHANGED uncaught
       ELSE /\ reload' = [reload EXCEPT ![s][c].timer = "threw",
                                        ![s][c].deadline = 0]
            /\ uncaught' = [uncaught EXCEPT ![s] = @ + 1]
    /\ UNCHANGED <<now, helperVars, lifeVars, queryVars, pageDCL, newPageVars,
                   logVars, inputVars>>

(* --------------------- waitForNewPage (lines 142-161) ------------------ *)
TargetTypes == {"page", "background_page", "service_worker"}

\* the latest page target among the first n of list ts, 0 when there is none
RECURSIVE LastPage(_, _)
LastPage(ts, n) ==
    IF n = 0 THEN 0
    ELSE IF ts[n] = "page" THEN n ELSE LastPage(ts, n - 1)

\* a waitForNewPage that first looks at the targets the browser already has
\* and takes the latest page among them
WaitForNewPageSeesOpen(s, t) ==
    /\ \E c \in Calls : newPage[s][c].st = "none"
    /\ LET c == NextCall(newPage[s])
           k == LastPage(targets[s], Len(targets[s]))
       IN IF k = 0
          THEN /\ newPage' = [newPage EXCEPT ![s][c] =
                     [NoPageCall EXCEPT !.st = "pending", !.timer = "armed",
                                        !.deadline = now + t]]
               /\ browserTC' = [browserTC EXCEPT ![s] = Append(@, c)]
          ELSE /\ newPage' = [newPage EXCEPT ![s][c] =
                     [NoPageCall EXCEPT !.st = "pending", !.timer = "cleared",
                                        !.tgt = k, !.look = "waiting"]]
               /\ UNCHANGED browserTC
    /\ UNCHANGED <<now, helperVars, lifeVars, queryVars, reloadVars, targets,
                   uncaught, logVars, inputVars>>

\* waitForNewPage(timeout): the executor arms the timer (line 144) and
\* registers the callback with this.browser.on (line 159)
WaitForNewPage(s, t) ==
    /\ \E c \in Calls : newPage[s][c].st = "none"
    /\ LET c == NextCall(newPage[s]) IN
         /\ newPage' = [newPage EXCEPT ![s][c] =
               [NoPageCall EXCEPT !.st = "pending", !.timer = "armed",
                                  !.deadline = now + t]]
         /\ browserTC' = [browserTC EXCEPT ![s] = Append(@, c)]
    /\ UNCHANGED <<now, helperVars, lifeVars, queryVars, reloadVars, targets,
                   uncaught, logVars, inputVars>>

\* a callback that lacks the type test of lines 150-152: every target is
\* taken for a page
NewPageCallbackAnyTarget(r, k, ty) ==
    [r EXCEPT !.timer = IF r.timer = "armed" THEN "cleared" ELSE r.timer,
              !.deadline = 0,
              !.tgt = k,
              !.look = "waiting"]

\* the callback (lines 149-157) up to its await, run for call record r on
\* target number k of type ty: a non-page target returns at once (skipped
\* counts these returns); a page target removes the listener, clears the
\* timer and awaits target.page()
NewPageCallback(r, k, ty) ==
    IF ty # "page" THEN [r EXCEPT !.skipped = r.skipped + 1]
    ELSE [r EXCEPT !.timer = IF r.timer = "armed" THEN "cleared" ELSE r.timer,
                   !.deadline = 0,
                   !.tgt = k,
                   !.look = "waiting"]

\* the browser creates a target and emits 'targetcreated': every registered
\* callback runs up to its await
TargetCreated(s, ty) ==
    /\ browser[s] = "open"
    /\ Len(targets[s]) < MaxTargets
    /\ targets' = [targets EXCEPT ![s] = Append(@, ty)]
    /\ newPage' = [newPage EXCEPT ![s] =
          [c \in Calls |-> IF c \in Range(browserTC[s])
                           THEN NewPageCallback(newPage[s][c], Len(targets[s]) + 1, ty)
                           ELSE newPage[s][c]]]
    /\ browserTC' = [browserTC EXCEPT ![s] = IF ty = "page" THEN <<>> ELSE @]
    /\ UNCHANGED <<now, helperVars, lifeVars, queryVars, reloadVars, uncaught,
                   logVars, inputVars>>

\* target.page() answers: the callback continues with resolve(page)
\* (lines 155-156); the page handle of target k is k
NewPageLookupDone(s, c) ==
    /\ newPage[s][c].look = "waiting"
    /\ newPage' = [newPage EXCEPT ![s][c] =
          [@ EXCEPT !.look = "done",
                    !.st = IF @ = "pending" THEN "resolved" ELSE @,
                    !.result = newPage[s][c].tgt,
                    !.settles = @ + 1]]
    /\ UNCHANGED <<now, helperVars, lifeVars, queryVars, reloadVars,
                   browserTC, targets, uncaught, logVars, inputVars>>

\* target.page() rejects: the async callback rejects, nobody handles it, and
\* resolve is never reached
NewPageLookupFail(s, c) ==
    /\ newPage[s][c].look = "waiting"
    /\ newPage' = [newPage EXCEPT ![s][c].look = "failed"]
    /\ uncaught' = [uncaught EXCEPT ![s] = @ + 1]
    /\ UNCHANGED <<now, helperVars, lifeVars, queryVars, reloadVars,
                   browserTC, targets, logVars, inputVars>>

\* a timer callback that rejects and leaves the listener on the browser
NewPageTimerFireLeaky(s, c) ==
    /\ newPage[s][c].timer = "armed"
    /\ now >= newPage[s][c].deadline
    /\ newPage' = [newPage EXCEPT ![s][c] =
          [@ EXCEPT !.timer = "fired",
                    !.deadline = 0,
                    !.st = IF @ = "pending" THEN "rejected" ELSE @,
                    !.settles = @ + 1,
                    !.error = "timeout"]]
    /\ UNCHANGED <<now, helperVars, lifeVars, queryVars, reloadVars,
                   browserTC, targets, uncaught, logVars, inputVars>>

\* the timer callback of call c (lines 144-147):
\*   this.browser.removeListener('targetcreated', callback); reject(...)
NewPageTimerFire(s, c) ==
    /\ newPage[s][c].timer = "armed"
    /\ now >= newPage[s][c].deadline
    /\ browserTC' = [browserTC EXCEPT ![s] = Without(@, c)]
    /\ newPage' = [newPage EXCEPT ![s][c] =
          [@ EXCEPT !.timer = "fired",
                    !.deadline = 0,
                    !.st = IF @ = "pending" THEN "rejected" ELSE @,
                    !.settles = @ + 1,
                    !.error = "timeout"]]
    /\ UNCHANGED <<now, helperVars, lifeVars, queryVars, reloadVars, targets,
                   uncaught, logVars, inputVars>>

(* ------------- waitAndQuery / waitAndQueryAll (lines 113-124) ---------- *)
\* a waitAndQuery that does not hand its timeout on: the wait is due at once
WaitAndQueryAllNoTimeout(s, t) ==
    /\ wqa[s].pc \in {"idle", "resolved", "rejected"}
    /\ wqa' = [wqa EXCEPT ![s] =
          [IdleWqa EXCEPT !.pc = "waiting", !.deadline = now, !.timeout = t]]
    /\ UNCHANGED <<now, helperVars, lifeVars, dom, reloadVars, newPageVars,
                   uncaught, logVars, inputVars>>

\* waitAndQueryAll(selector, timeout): its first step is waitAndQuery, which
\* starts this.page.waitForSelector(selector, {visible: true, timeout})
WaitAndQueryAll(s, t) ==
    /\ wqa[s].pc \in {"idle", "resolved", "rejected"}
    /\ wqa' = [wqa EXCEPT ![s] =
          [IdleWqa EXCEPT !.pc = "waiting", !.deadline = now + t,
                          !.timeout = t]]
    /\ UNCHANGED <<now, helperVars, lifeVars, dom, reloadVars, newPageVars,
                   uncaught, logVars, inputVars>>

\* waitForSelector sees a visible match and resolves; the await of line 122
\* returns and the call goes on to line 123
WaitFound(s) ==
    /\ wqa[s].pc = "waiting"
    /\ "served" \in EngineAnswers(browser[s])
    /\ Visible(dom[s]) # {}
    /\ wqa' = [wqa EXCEPT ![s].pc = "querying", ![s].deadline = 0,
                          ![s].timeout = 0]
    /\ UNCHANGED <<now, helperVars, lifeVars, dom, reloadVars, newPageVars,
                   uncaught, logVars, inputVars>>

\* waitForSelector's own timer fires first: the await of line 122 throws
WaitTimeout(s) ==
    /\ wqa[s].pc = "waiting"
    /\ now >= wqa[s].deadline
    /\ wqa' = [wqa EXCEPT ![s].pc = "rejected", ![s].deadline = 0,
                          ![s].timeout = 0, ![s].error = "TimeoutError"]
    /\ UNCHANGED <<now, helperVars, lifeVars, dom, reloadVars, newPageVars,
                   uncaught, logVars, inputVars>>

\* the browser goes away under a pending wait or query: the engine rejects
WaitClosed(s) ==
    /\ wqa[s].pc \in {"waiting", "querying"}
    /\ "TargetClosed" \in EngineAnswers(browser[s])
    /\ wqa' = [wqa EXCEPT ![s].pc = "rejected", ![s].deadline = 0,
                          ![s].timeout = 0, ![s].error = "TargetClosed"]
    /\ UNCHANGED <<now, helperVars, lifeVars, dom, reloadVars, newPageVars,
                   uncaught, logVars, inputVars>>

\* a queryAll that keeps only the visible matches
QueryAllVisible(d) == SortedSeq(Visible(d))

\* queryAll(selector): this.page.$$(selector), every match, visible or not
QueryAll(d) == SortedSeq(Present(d))

\* line 123: return await this.queryAll(selector)
QueryAllStep(s) ==
    /\ wqa[s].pc = "querying"
    /\ "served" \in EngineAnswers(browser[s])
    /\ wqa' = [wqa EXCEPT ![s].pc = "resolved", ![s].result = QueryAll(dom[s])]
    /\ UNCHANGED <<now, helperVars, lifeVars, dom, reloadVars, newPageVars,
                   uncaught, logVars, inputVars>>

\* the application under test changes the document
DomChange(s, e, v) ==
    /\ browser[s] = "open"
    /\ dom[s][e] # v
    /\ dom' = [dom EXCEPT ![s][e] = v]
    /\ UNCHANGED <<now, helperVars, lifeVars, wqa, reloadVars, newPageVars,
                   uncaught, logVars, inputVars>>

(* ---------------- the LogBuffers (constructor, lines 28-33) ------------ *)
ConsoleTexts == {"ready", "oops"}

\* finished requests; response is FALSE when req.response() gives null
Requests ==
    { [type |-> "xhr", status |-> 200, method |-> "GET", url |-> "/sync",
       response |-> TRUE],
      [type |-> "fetch", status |-> 404, method |-> "POST", url |-> "/send",
       response |-> TRUE],
      [type |-> "image", status |-> 0, method |-> "GET", url |-> "/img",
       response |-> FALSE] }

\* the console formatter (line 28): (msg) => `${msg.text()}\n`
ConsoleFormat(txt) == txt \o "\n"

\* the network formatter (lines 29-33) raises when response is null:
\* response.status() is a TypeError
NetworkRaises(req) == ~req.response

\* and otherwise returns `${type} ${response.status()} ${req.method()} ${req.url()} \n`
NetworkFormat(req) ==
    req.type \o " " \o ToString(req.status) \o " " \o req.method \o " "
        \o req.url \o " \n"

\* the page emits 'console': the buffer's listener formats the message and
\* appends the result
ConsoleEvent(s, txt) ==
    /\ browser[s] # "closed"
    /\ "console" \in logListeners[s]
    /\ Len(consoleSeen[s]) < MaxLog
    /\ consoleSeen' = [consoleSeen EXCEPT ![s] = Append(@, txt)]
    /\ consoleBuf' = [consoleBuf EXCEPT ![s] = Append(@, ConsoleFormat(txt))]
    /\ UNCHANGED <<now, helperVars, lifeVars, queryVars, reloadVars,
                   newPageVars, uncaught, logListeners, netSeen, netPending,
                   netFailed, networkBuf, xhr, inputVars>>

\* the page emits 'requestfinished': the buffer's listener calls the
\* formatter, which runs to its await of req.response(), and so does every
\* listener that logXHRRequests added (lines 80-81)
RequestFinished(s, req) ==
    /\ browser[s] # "closed"
    /\ "requestfinished" \in logListeners[s]
    /\ Len(netSeen[s]) < MaxLog
    /\ netSeen' = [netSeen EXCEPT ![s] = Append(@, req)]
    /\ netPending' = [netPending EXCEPT ![s] = @ \cup {Len(netSeen[s]) + 1}]
    /\ xhr' = [xhr EXCEPT ![s] =
          [k \in 1..Len(@) |->
              [@[k] EXCEPT !.pending = @ \cup {Len(netSeen[s]) + 1}]]]
    /\ UNCHANGED <<now, helperVars, lifeVars, queryVars, reloadVars,
                   newPageVars, uncaught, logListeners, consoleSeen,
                   consoleBuf, netFailed, networkBuf, inputVars>>

\* the await of delivery i returns: the formatter finishes and the listener
\* appends its result, or the formatter raises and there is no result to
\* append. logbuffer.js is not part of the source, so what its listener
\* does with the error is open: it catches it, or the rejection of the
\* async formatter is handled by nobody, as in the listener of lines 79-88
FormatterDone(s, i) ==
    /\ i \in netPending[s]
    /\ netPending' = [netPending EXCEPT ![s] = @ \ {i}]
    /\ IF NetworkRaises(netSeen[s][i])
       THEN /\ netFailed' = [netFailed EXCEPT ![s] = @ \cup {i}]
            /\ UNCHANGED networkBuf
            /\ \E caught \in BOOLEAN :
                  uncaught' = [uncaught EXCEPT ![s] =
                                  IF caught THEN @ ELSE @ + 1]
       ELSE /\ networkBuf' = [networkBuf EXCEPT ![s] =
                  Append(@, NetworkFormat(netSeen[s][i]))]
            /\ UNCHANGED <<netFailed, uncaught>>
    /\ UNCHANGED <<now, helperVars, lifeVars, queryVars, reloadVars,
                   newPageVars, logListeners, consoleSeen, consoleBuf,
                   netSeen, xhr, inputVars>>

(* --------------------- logXHRRequests (lines 77-94) -------------------- *)
\* a listener of logXHRRequests: the string logs() returns, and the
\* deliveries whose callback waits in "await req.response()"
NoXhr == [buffer |-> "", pending |-> {}]

\* logXHRRequests(): one more 'requestfinished' listener on the page, with a
\* buffer of its own; nothing ever removes it
LogXHRRequests(s) ==
    /\ Len(xhr[s]) < MaxXhr
    /\ xhr' = [xhr EXCEPT ![s] = Append(@, NoXhr)]
    /\ UNCHANGED <<now, helperVars, lifeVars, queryVars, reloadVars,
                   newPageVars, uncaught, logListeners, consoleSeen,
                   consoleBuf, netSeen, netPending, netFailed, networkBuf,
                   inputVars>>

\* line 83: `${type} ${response.status()} ${req.method()} ${req.url()} \n`
XhrFormat(req) ==
    req.type \o " " \o ToString(req.status) \o " " \o req.method \o " "
        \o req.url \o " \n"

\* the await of line 81 returns in the k-th listener for delivery i: line 83
\* appends the line to the buffer, or, the response being null, throws a
\* TypeError out of the async callback, which nobody handles
XhrDone(s, k, i) ==
    /\ k \in 1..Len(xhr[s])
    /\ i \in xhr[s][k].pending
    /\ IF netSeen[s][i].response
       THEN /\ xhr' = [xhr EXCEPT ![s][k] =
                  [buffer |-> @.buffer \o XhrFormat(netSeen[s][i]),
                   pending |-> @.pending \ {i}]]
            /\ UNCHANGED uncaught
       ELSE /\ xhr' = [xhr EXCEPT ![s][k].pending = @ \ {i}]
            /\ uncaught' = [uncaught EXCEPT ![s] = @ + 1]
    /\ UNCHANGED <<now, helperVars, lifeVars, queryVars, reloadVars,
                   newPageVars, logListeners, consoleSeen, consoleBuf,
                   netSeen, netPending, netFailed, networkBuf, inputVars>>

(* ------------------ replaceInputText (lines 100-107) ------------------- *)
Texts == UNION {[1..n -> Chars] : n \in 0..MaxLen}

\* a click that selects nothing whatever its count
ClickOnce(inp, n) ==
    [inp EXCEPT !.selFrom = Len(inp.value), !.selTo = Len(inp.value)]

\* input.click({clickCount: n}) on a single-line text input: three clicks
\* select the whole value; fewer put the caret where the click lands, which
\* for a click at the centre of the field is after a short value
Click(inp, n) ==
    IF n >= 3 THEN [inp EXCEPT !.selFrom = 0, !.selTo = Len(inp.value)]
    ELSE [inp EXCEPT !.selFrom = Len(inp.value), !.selTo = Len(inp.value)]

\* the value with positions from+1..to replaced by ins
Splice(v, from, to, ins) == SubSeq(v, 1, from) \o ins \o SubSeq(v, to + 1, Len(v))

\* input.press('Backspace'): deletes the selection, or else the character
\* before the caret
Backspace(inp) ==
    IF inp.selFrom < inp.selTo
    THEN [value |-> Splice(inp.value, inp.selFrom, inp.selTo, <<>>),
          selFrom |-> inp.selFrom, selTo |-> inp.selFrom]
    ELSE IF inp.selFrom = 0 THEN inp
    ELSE [value |-> Splice(inp.value, inp.selFrom - 1, inp.selFrom, <<>>),
          selFrom |-> inp.selFrom - 1, selTo |-> inp.selFrom - 1]

\* one keystroke of input.type(text): the character replaces the selection
\* and the caret moves behind it
TypeChar(inp, ch) ==
    [value |-> Splice(inp.value, inp.selFrom, inp.selTo, <<ch>>),
     selFrom |-> inp.selFrom + 1, selTo |-> inp.selFrom + 1]

\* the application (or an earlier step of the test) leaves a value in the
\* input; it does not touch the field while the driver is replacing it
PageSetsInput(s, v) ==
    /\ browser[s] = "open"
    /\ rit[s].pc \in {"idle", "done", "failed"}
    /\ input[s].value # v
    /\ input' = [input EXCEPT ![s] =
          [value |-> v, selFrom |-> Len(v), selTo |-> Len(v)]]
    /\ UNCHANGED <<now, helperVars, lifeVars, queryVars, reloadVars,
                   newPageVars, uncaught, logVars, rit>>

\* replaceInputText(input, text) is called
ReplaceInputText(s, text) ==
    /\ rit[s].pc \in {"idle", "done", "failed"}
    /\ rit' = [rit EXCEPT ![s] =
          [pc |-> "click", text |-> text, typed |-> 0, before |-> input[s].value]]
    /\ UNCHANGED <<now, helperVars, lifeVars, queryVars, reloadVars,
                   newPageVars, uncaught, logVars, input>>

\* the clicks of line 102
ClickCount == 3

\* line 102: await input.click({clickCount: 3})
RitClick(s) ==
    /\ rit[s].pc = "click"
    /\ \E a \in EngineAnswers(browser[s]) :
         IF a = "served"
         THEN /\ input' = [input EXCEPT ![s] = Click(@, ClickCount)]
              /\ rit' = [rit EXCEPT ![s].pc = "press"]
         ELSE /\ rit' = [rit EXCEPT ![s].pc = "failed"]
              /\ UNCHANGED input
    /\ UNCHANGED <<now, helperVars, lifeVars, queryVars, reloadVars,
                   newPageVars, uncaught, logVars>>

\* line 104: await input.press('Backspace')
RitPress(s) ==
    /\ rit[s].pc = "press"
    /\ \E a \in EngineAnswers(browser[s]) :
         IF a = "served"
         THEN /\ input' = [input EXCEPT ![s] = Backspace(@)]
              /\ rit' = [rit EXCEPT ![s].pc = "type"]
         ELSE /\ rit' = [rit EXCEPT ![s].pc = "failed"]
              /\ UNCHANGED input
    /\ UNCHANGED <<now, helperVars, lifeVars, queryVars, reloadVars,
                   newPageVars, uncaught, logVars>>

\* line 106: await input.type(text), one keystroke at a time; an empty text
\* has no keystroke, and the engine answers the call just the same
RitType(s) ==
    /\ rit[s].pc = "type"
    /\ \E a \in EngineAnswers(browser[s]) :
         IF a = "served"
         THEN IF rit[s].text = <<>>
              THEN /\ rit' = [rit EXCEPT ![s].pc = "done"]
                   /\ UNCHANGED input
              ELSE /\ input' = [input EXCEPT ![s] =
                         TypeChar(@, rit[s].text[rit[s].typed + 1])]
                   /\ rit' = [rit EXCEPT
                         ![s].typed = @ + 1,
                         ![s].pc = IF rit[s].typed + 1 = Len(rit[s].text)
                                   THEN "done" ELSE "type"]
         ELSE /\ rit' = [rit EXCEPT ![s].pc = "failed"]
              /\ UNCHANGED input
    /\ UNCHANGED <<now, helperVars, lifeVars, queryVars, reloadVars,
                   newPageVars, uncaught, logVars>>

(* ------------------- RiotSession.create (lines 37-45) ------------------ *)
\* the display-server bases a session is created with, and the paths asked of
\* url(): with and without a "/" at the joint
Riotservers == {"http://localhost:5000", "http://localhost:5000/"}
Paths == {"", "/#/home", "#/room"}

ViewportWidth == 1280
ViewportHeight == 800
\* a viewport with the two numbers the other way round
ViewportSwapped == <<ViewportHeight, ViewportWidth>>
\* the viewport of page.setViewport({width: 1280, height: 800})
Viewport == <<ViewportWidth, ViewportHeight>>

\* create(username, puppeteerOptions, riotserver, hsUrl) is called and waits
\* in "await puppeteer.launch(puppeteerOptions)"
Create(base) ==
    /\ create.pc \in {"idle", "resolved", "rejected"}
    /\ create.attempt < MaxCreate
    /\ create' = [NoCreate EXCEPT !.pc = "launch", !.riotserver = base,
                                  !.attempt = create.attempt + 1,
                                  !.launchErrors = create.launchErrors,
                                  !.orphans = create.orphans]
    /\ urlCall' = NoUrlCall
    /\ UNCHANGED <<now, htmlOp, lifeVars, queryVars, reloadVars, newPageVars,
                   uncaught, logVars, inputVars>>

\* the browser process starts: line 38 returns, line 39 waits in newPage()
LaunchDone ==
    /\ create.pc = "launch"
    /\ create' = [create EXCEPT !.pc = "newPage", !.proc = "running"]
    /\ UNCHANGED <<now, urlCall, htmlOp, lifeVars, queryVars, reloadVars,
                   newPageVars, uncaught, logVars, inputVars>>

\* the browser process cannot start: the await of line 38 throws and create
\* rejects with what puppeteer.launch rejected with
LaunchFail ==
    /\ create.pc = "launch"
    /\ create' = [create EXCEPT !.pc = "rejected", !.error = "LaunchError",
                                !.launchErrors = @ + 1]
    /\ UNCHANGED <<now, urlCall, htmlOp, lifeVars, queryVars, reloadVars,
                   newPageVars, uncaught, logVars, inputVars>>

\* the page opens: line 39 returns, line 40 waits in setViewport
NewPageDone ==
    /\ create.pc = "newPage"
    /\ create' = [create EXCEPT !.pc = "setViewport", !.page = "open"]
    /\ UNCHANGED <<now, urlCall, htmlOp, lifeVars, queryVars, reloadVars,
                   newPageVars, uncaught, logVars, inputVars>>

\* browser.newPage() rejects: the await of line 39 throws out of create, which
\* has no handler around it; the launched process keeps running
NewPageFail ==
    /\ create.pc = "newPage"
    /\ create' = [create EXCEPT !.pc = "rejected", !.error = "ProtocolError",
                                !.orphans = @ + 1]
    /\ UNCHANGED <<now, urlCall, htmlOp, lifeVars, queryVars, reloadVars,
                   newPageVars, uncaught, logVars, inputVars>>

\* the viewport is set: line 40 returns and line 44 runs the constructor
\* (lines 22-35), whose two LogBuffers subscribe to the page
SetViewportDone ==
    /\ create.pc = "setViewport"
    /\ create' = [create EXCEPT !.pc = "resolved", !.viewport = Viewport,
                                !.session = TRUE,
                                !.listeners = {"console", "requestfinished"}]
    /\ UNCHANGED <<now, urlCall, htmlOp, lifeVars, queryVars, reloadVars,
                   newPageVars, uncaught, logVars, inputVars>>

\* page.setViewport rejects: the await of line 40 throws out of create; the
\* launched process and its page stay as they are
SetViewportFail ==
    /\ create.pc = "setViewport"
    /\ create' = [create EXCEPT !.pc = "rejected", !.error = "ProtocolError",
                                !.orphans = @ + 1]
    /\ UNCHANGED <<now, urlCall, htmlOp, lifeVars, queryVars, reloadVars,
                   newPageVars, uncaught, logVars, inputVars>>

(* --------------------------- url (lines 167-169) ----------------------- *)
\* a url that puts a "/" between the base and the path
UrlWithSlash(base, path) == base \o "/" \o path

\* return this.riotserver + path
Url(base, path) == base \o path

\* url(path) on the session create handed back
UrlStep(path) ==
    /\ create.session
    /\ urlCall' = [path |-> path, out |-> Url(create.riotserver, path),
                   made |-> TRUE]
    /\ UNCHANGED <<now, create, htmlOp, lifeVars, queryVars, reloadVars,
                   newPageVars, uncaught, logVars, inputVars>>

(* ------- innerText, getOuterHTML, printElements (lines 56-67, 96-98) --- *)
\* the names every method of session.js can read: the requires of lines
\* 17-19 and the globals of the host
ModuleScope == {"puppeteer", "Logger", "LogBuffer", "console", "Promise",
                "setTimeout", "clearTimeout", "require", "module"}

\* a getOuterHTML whose parameter is called field, like innerText's
ParamsAllField(method) ==
    CASE method = "innerText" -> {"field"}
      [] method = "getOuterHTML" -> {"field"}
      [] method = "printElements" -> {"label", "elements"}

\* the parameters of the three methods, as they are named at lines 61, 65, 96
Params(method) ==
    CASE method = "innerText" -> {"field"}
      [] method = "getOuterHTML" -> {"element_handle"}
      [] method = "printElements" -> {"label", "elements"}

\* whether the body of method can read the identifier id
InScope(method, id) == id \in Params(method) \cup ModuleScope

\* this.getElementProperty(handle, property) called from a method whose
\* body names the handle "field": a ReferenceError thrown before the call
\* is made when the method has no such name; else the call runs to its
\* first await, "await handle.getProperty(property)" (line 57)
GetElementProperty(method, h, property) ==
    IF ~InScope(method, "field")
    THEN [NoHtmlOp EXCEPT !.op = method, !.arg = <<h>>,
                          !.property = property, !.outcome = "threw",
                          !.error = "ReferenceError"]
    ELSE [NoHtmlOp EXCEPT !.op = method, !.arg = <<h>>,
                          !.property = property, !.await = "getProperty",
                          !.outcome = "pending"]

\* innerText(field): return this.getElementProperty(field, 'innerText')
InnerText(s, h) ==
    /\ htmlOp[s].outcome # "pending"
    /\ htmlOp' = [htmlOp EXCEPT ![s] =
                     GetElementProperty("innerText", h, "innerText")]
    /\ UNCHANGED <<now, create, urlCall, lifeVars, queryVars, reloadVars,
                   newPageVars, uncaught, logVars, inputVars>>

\* getOuterHTML(element_handle):
\* return this.getElementProperty(field, 'outerHTML')
GetOuterHTML(s, h) ==
    /\ htmlOp[s].outcome # "pending"
    /\ htmlOp' = [htmlOp EXCEPT ![s] =
                     GetElementProperty("getOuterHTML", h, "outerHTML")]
    /\ UNCHANGED <<now, create, urlCall, lifeVars, queryVars, reloadVars,
                   newPageVars, uncaught, logVars, inputVars>>

\* the engine answers handle.getProperty(property): line 57 returns and the
\* call waits in "await propHandle.jsonValue()" (line 58), or the await
\* throws and the call rejects
GetPropertyAnswer(s) ==
    /\ htmlOp[s].outcome = "pending" /\ htmlOp[s].await = "getProperty"
    /\ \E a \in EngineAnswers(browser[s]) :
         htmlOp' = [htmlOp EXCEPT ![s] =
            IF a = "served"
            THEN [@ EXCEPT !.await = "jsonValue"]
            ELSE [@ EXCEPT !.await = "none", !.outcome = "rejected",
                           !.error = a]]
    /\ UNCHANGED <<now, create, urlCall, lifeVars, queryVars, reloadVars,
                   newPageVars, uncaught, logVars, inputVars>>

\* the engine answers propHandle.jsonValue(): the call resolves with the
\* value of that property of that handle, or rejects
JsonValueAnswer(s) ==
    /\ htmlOp[s].outcome = "pending" /\ htmlOp[s].await = "jsonValue"
    /\ \E a \in EngineAnswers(browser[s]) :
         htmlOp' = [htmlOp EXCEPT ![s] =
            IF a = "served"
            THEN [@ EXCEPT !.await = "none", !.outcome = "resolved",
                           !.value = <<Head(htmlOp[s].arg),
                                        htmlOp[s].property>>]
            ELSE [@ EXCEPT !.await = "none", !.outcome = "rejected",
                           !.error = a]]
    /\ UNCHANGED <<now, create, urlCall, lifeVars, queryVars, reloadVars,
                   newPageVars, uncaught, logVars, inputVars>>

\* printElements(label, elements): elements.map(getOuterHTML) reads the bare
\* name getOuterHTML before it maps anything; the method is async, so what
\* it throws rejects its promise
PrintElements(s, elements) ==
    /\ htmlOp[s].outcome # "pending"
    /\ htmlOp' = [htmlOp EXCEPT ![s] =
          IF ~InScope("printElements", "getOuterHTML")
          THEN [NoHtmlOp EXCEPT !.op = "printElements", !.arg = elements,
                                !.outcome = "rejected",
                                !.error = "ReferenceError"]
          ELSE [NoHtmlOp EXCEPT !.op = "printElements", !.arg = elements,
                                !.outcome = "resolved"]]
    /\ UNCHANGED <<now, create, urlCall, lifeVars, queryVars, reloadVars,
                   newPageVars, uncaught, logVars, inputVars>>

(* --------------------------- specifications ---------------------------- *)
\* what session s can do and what can happen to it
Life(s) ==
    \/ Query(s)
    \/ QueryAnswer(s)
    \/ \E url \in Urls : Goto(s, url)
    \/ GotoDCL(s)
    \/ GotoAnswer(s)
    \/ Close(s)
    \/ BrowserExit(s)
    \/ PageLoad(s)

Reloads(s) ==
    \/ \E t \in Timeouts : WaitForReload(s, t)
    \/ \E c \in Calls : ReloadTimerFire(s, c)

NewPages(s) ==
    \/ \E t \in Timeouts : WaitForNewPage(s, t)
    \/ \E ty \in TargetTypes : TargetCreated(s, ty)
    \/ \E c \in Calls : NewPageLookupDone(s, c)
    \/ \E c \in Calls : NewPageLookupFail(s, c)
    \/ \E c \in Calls : NewPageTimerFire(s, c)

Queries(s) ==
    \/ \E t \in Timeouts : WaitAndQueryAll(s, t)
    \/ WaitFound(s)
    \/ WaitTimeout(s)
    \/ WaitClosed(s)
    \/ QueryAllStep(s)
    \/ \E e \in Elems, v \in {"absent", "hidden", "visible"} : DomChange(s, e, v)

Logs(s) ==
    \/ \E txt \in ConsoleTexts : ConsoleEvent(s, txt)
    \/ \E req \in Requests : RequestFinished(s, req)
    \/ \E i \in 1..MaxLog : FormatterDone(s, i)

XhrLogs(s) ==
    \/ LogXHRRequests(s)
    \/ \E req \in Requests : RequestFinished(s, req)
    \/ \E k \in 1..MaxXhr, i \in 1..MaxLog : XhrDone(s, k, i)

Inputs(s) ==
    \/ \E v \in Texts : PageSetsInput(s, v)
    \/ \E text \in Texts : ReplaceInputText(s, text)
    \/ RitClick(s)
    \/ RitPress(s)
    \/ RitType(s)

\* waitForReload of one session, with what emits 'domcontentloaded'
NextReload ==
    \/ Tick
    \/ \E s \in Solo : \/ \E url \in Urls : Goto(s, url)
                       \/ GotoDCL(s)
                       \/ GotoAnswer(s)
                       \/ Close(s)
                       \/ BrowserExit(s)
                       \/ PageLoad(s)
                       \/ Reloads(s)
SpecReload == Init /\ [][NextReload]_vars

\* waitForNewPage of one session
NextNewPage == Tick \/ \E s \in Solo : NewPages(s)
SpecNewPage == Init /\ [][NextNewPage]_vars

\* query, goto and waitAndQueryAll of one session over its lifecycle
NextQuery == Tick \/ \E s \in Solo : Life(s) \/ Queries(s)
SpecQuery == Init /\ [][NextQuery]_vars

\* the two LogBuffers of one session
NextLog == \E s \in Solo : Logs(s) \/ Close(s) \/ BrowserExit(s)
SpecLog == Init /\ [][NextLog]_vars

\* the listeners of logXHRRequests of one session
NextXhr == \E s \in Solo : XhrLogs(s) \/ Close(s) \/ BrowserExit(s)
SpecXhr == Init /\ [][NextXhr]_vars

\* replaceInputText of one session
NextInput == \E s \in Solo : Inputs(s) \/ Close(s) \/ BrowserExit(s)
SpecInput == Init /\ [][NextInput]_vars

\* RiotSession.create, and url and the element-property helpers of a session
Factory ==
    \/ \E base \in Riotservers : Create(base)
    \/ LaunchDone
    \/ LaunchFail
    \/ NewPageDone
    \/ NewPageFail
    \/ SetViewportDone
    \/ SetViewportFail
    \/ \E path \in Paths : UrlStep(path)
Helpers(s) ==
    \/ \E h \in Elems : InnerText(s, h)
    \/ \E h \in Elems : GetOuterHTML(s, h)
    \/ GetPropertyAnswer(s)
    \/ JsonValueAnswer(s)
    \/ \E S \in SUBSET Elems : PrintElements(s, SortedSeq(S))
NextCreate ==
    \/ Factory
    \/ \E s \in Solo : Helpers(s) \/ Close(s) \/ BrowserExit(s)
SpecCreate == Init /\ [][NextCreate]_vars

\* how much of session s a run has touched: the calls made and the events
\* delivered that left a trace in the state
Touched(b) == IF b THEN 1 ELSE 0
Activity(s) ==
    closeCalls[s]
    + Cardinality({c \in Calls : reload[s][c].st # "none"})
    + Cardinality({c \in Calls : newPage[s][c].st # "none"})
    + Len(targets[s]) + Len(consoleSeen[s]) + Len(netSeen[s])
    + Cardinality(Present(dom[s]))
    + Touched(lastOp[s] # NoOp) + Touched(wqa[s] # IdleWqa)
    + Touched(rit[s] # IdleRit) + Touched(input[s] # EmptyInput)
    + Touched(htmlOp[s] # NoHtmlOp) + Len(xhr[s])
Small == \A s \in Sessions : Activity(s) <= MaxActivity

\* everything one session can do and everything that can happen to it, in
\* runs that touch at most MaxActivity things. The inputs are fixed here
\* (one timeout, one element, one text); the specifications above range
\* over them.
SessionStep(s) ==
    \/ Query(s)
    \/ QueryAnswer(s)
    \/ Goto(s, "/#/home")
    \/ GotoDCL(s)
    \/ GotoAnswer(s)
    \/ Close(s)
    \/ BrowserExit(s)
    \/ PageLoad(s)
    \/ WaitForReload(s, 1)
    \/ \E c \in Calls : ReloadTimerFire(s, c)
    \/ WaitForNewPage(s, 1)
    \/ \E ty \in {"page", "service_worker"} : TargetCreated(s, ty)
    \/ \E c \in Calls : NewPageLookupDone(s, c)
    \/ \E c \in Calls : NewPageLookupFail(s, c)
    \/ \E c \in Calls : NewPageTimerFire(s, c)
    \/ WaitAndQueryAll(s, 1)
    \/ WaitFound(s)
    \/ WaitTimeout(s)
    \/ WaitClosed(s)
    \/ QueryAllStep(s)
    \/ \E v \in {"absent", "visible"} : DomChange(s, 1, v)
    \/ ConsoleEvent(s, "ready")
    \/ \E req \in Requests : RequestFinished(s, req)
    \/ \E i \in 1..MaxLog : FormatterDone(s, i)
    \/ LogXHRRequests(s)
    \/ \E k \in 1..MaxXhr, i \in 1..MaxLog : XhrDone(s, k, i)
    \/ PageSetsInput(s, <<"a">>)
    \/ ReplaceInputText(s, <<"b">>)
    \/ RitClick(s)
    \/ RitPress(s)
    \/ RitType(s)
    \/ InnerText(s, 1)
    \/ GetOuterHTML(s, 1)
    \/ GetPropertyAnswer(s)
    \/ JsonValueAnswer(s)
    \/ PrintElements(s, <<1>>)
Next == Tick \/ \E s \in Solo : SessionStep(s)
Spec == Init /\ [][Next /\ Small']_vars

\* all the sessions side by side, in runs that touch at most MaxActivity
\* things between them. Each is closed, logs, waits with a timer and holds a
\* listener on its browser
RECURSIVE SumActivity(_)
SumActivity(n) == IF n = 0 THEN 0 ELSE Activity(n) + SumActivity(n - 1)
SmallTwo == SumActivity(NumSessions) <= MaxActivity
TwoStep(s) ==
    \/ Close(s)
    \/ BrowserExit(s)
    \/ ConsoleEvent(s, "ready")
    \/ \E req \in Requests : RequestFinished(s, req)
    \/ \E i \in 1..MaxLog : FormatterDone(s, i)
    \/ WaitAndQueryAll(s, 1)
    \/ WaitTimeout(s)
    \/ WaitClosed(s)
    \/ WaitForNewPage(s, 1)
    \/ \E c \in Calls : NewPageTimerFire(s, c)
NextTwo == Tick \/ \E s \in Sessions : TwoStep(s)
SpecTwo == Init /\ [][NextTwo /\ SmallTwo']_vars

(* ============================== claims ================================= *)

\* C1: after close() has been called on a Session, every later query or
\* goto fails with a ClosedSessionError; these operations succeed only
\* while the Session is Ready: a call made after close() that the engine
\* has answered is rejected with that error.
C1_ClosedSessionError ==
    \A s \in Sessions :
        (lastOp[s].afterClose /\ lastOp[s].outcome # "pending") =>
            /\ lastOp[s].outcome = "rejected"
            /\ lastOp[s].error = "ClosedSessionError"

\* C2: a waitForReload call settles by whichever comes first: a call whose
\* timer was cleared by 'domcontentloaded' is resolved, and a call whose
\* timer callback has run is rejected with the timeout error.
C2_SettlesByFirst ==
    \A s \in Sessions : \A c \in Calls :
        /\ reload[s][c].timer = "cleared" => reload[s][c].st = "resolved"
        /\ reload[s][c].timer \in {"fired", "threw"} =>
              reload[s][c].st = "rejected" /\ reload[s][c].error = "timeout"

\* C3: the 'domcontentloaded' listener of a waitForReload call is registered
\* on the page only while the race is undecided: once the event arrived or
\* the timer callback ran, the page no longer holds it.
C3_NoListenerLeft ==
    \A s \in Sessions : \A c \in Calls :
        c \in Range(pageDCL[s]) => reload[s][c].timer = "armed"

\* what holds of every waitForNewPage call, and of every step that delivers
\* a non-page target
C4Resolved ==
    \A s \in Sessions : \A c \in Calls :
        /\ newPage[s][c].st = "resolved" =>
              /\ newPage[s][c].result \in 1..Len(targets[s])
              /\ targets[s][newPage[s][c].result] = "page"
              /\ newPage[s][c].result = newPage[s][c].tgt
        /\ newPage[s][c].timer = "fired" =>
              newPage[s][c].st = "rejected" /\ newPage[s][c].error = "timeout"
        /\ newPage[s][c].tgt # 0 => targets[s][newPage[s][c].tgt] = "page"
C4NonPageStep ==
    \A s \in Sessions :
        (Len(targets'[s]) = Len(targets[s]) + 1
            /\ targets'[s][Len(targets'[s])] # "page") =>
        /\ browserTC'[s] = browserTC[s]
        /\ \A c \in Calls :
              /\ newPage'[s][c].st = newPage[s][c].st
              /\ newPage'[s][c].timer = newPage[s][c].timer
              /\ newPage'[s][c].deadline = newPage[s][c].deadline
              /\ newPage'[s][c].look = newPage[s][c].look
              /\ newPage'[s][c].result = newPage[s][c].result
\* C4: waitForNewPage resolves only on a 'targetcreated' event of a target
\* of type 'page', with that target's page handle; a non-page target
\* delivered while the call is pending leaves the promise, the listener and
\* the timer as they were, so a call that saw only non-page targets is
\* rejected with the timeout error when its timer fires.
C4_OnlyPageResolves == []C4Resolved /\ [][C4NonPageStep]_vars

\* C4 witness: two calls saw a non-page target while pending; the first was
\* then rejected by its timer, the second resolved with the page opened next
C4_Witness ==
    /\ newPage[1][1].skipped >= 1 /\ newPage[1][1].st = "rejected"
    /\ newPage[1][2].skipped >= 1 /\ newPage[1][2].st = "resolved"
    /\ newPage[1][2].result = 2

\* C5: the 'targetcreated' listener of a waitForNewPage call is removed on
\* both paths: a call that resolved or was rejected by its timer is not among
\* the browser's listeners (so when all calls have settled none is left),
\* and resolve/reject is reached at most once per call.
C5_ListenerRemoved ==
    \A s \in Sessions : \A c \in Calls :
        /\ newPage[s][c].st \in {"resolved", "rejected"} => c \notin Range(browserTC[s])
        /\ c \in Range(browserTC[s]) => newPage[s][c].timer = "armed"
        /\ newPage[s][c].settles <= 1

\* C5 witness: one call resolved by a page, one rejected by its timer, and
\* the browser holds no listener
C5_Witness ==
    /\ \E c \in Calls : newPage[1][c].st = "resolved" /\ newPage[1][c].settles = 1
    /\ \E c \in Calls : newPage[1][c].st = "rejected" /\ newPage[1][c].settles = 1
    /\ browserTC[1] = <<>>

\* the buffers that delivery order asks for
HasResponse(req) == req.response
NetworkExpected(s) ==
    LET ok == SelectSeq(netSeen[s], HasResponse)
    IN [i \in 1..Len(ok) |-> NetworkFormat(ok[i])]
ConsoleExpected(s) ==
    [i \in 1..Len(consoleSeen[s]) |-> ConsoleFormat(consoleSeen[s][i])]
\* C6: once every formatter has completed, each LogBuffer holds exactly one
\* entry per successfully formatted event, in the order the events were
\* delivered, for the console buffer and for the network buffer alike.
C6_DeliveryOrder ==
    \A s \in Sessions :
        /\ consoleBuf[s] = ConsoleExpected(s)
        /\ netPending[s] = {} => networkBuf[s] = NetworkExpected(s)

\* one step of a session seen through consoleLogs() and networkLogs()
C8Step ==
    \A s \in Sessions :
        /\ IsPrefix(consoleBuf[s], consoleBuf'[s])
        /\ IsPrefix(networkBuf[s], networkBuf'[s])
\* C8: the log buffers are append-only: across every step of a session,
\* whatever operation or event it is, what consoleLogs() and networkLogs()
\* returned before is a prefix of what they return after.
C8_AppendOnly == [][C8Step]_vars

\* C8 witness: close() was called on a session whose buffers hold entries
C8_Witness ==
    /\ closeCalls[1] > 0
    /\ consoleBuf[1] # <<>> \/ networkBuf[1] # <<>>

\* the step on which a replaceInputText call completes
C9Step ==
    \A s \in Sessions :
        (rit[s].pc # "done" /\ rit'[s].pc = "done") =>
            input'[s].value = rit'[s].text
\* C9: when replaceInputText(input, text) completes, the value of the input
\* is exactly text, whatever the value was before.
C9_ExactlyText == [][C9Step]_vars

\* C9 witness: a non-empty value was replaced by a different non-empty text
C9_Witness ==
    /\ rit[1].pc = "done"
    /\ rit[1].before # <<>> /\ rit[1].text # <<>>
    /\ rit[1].before # rit[1].text
    /\ Len(rit[1].before) = MaxLen
    /\ input[1].value = rit[1].text

\* C10 as stated: whenever waitAndQueryAll resolves, the list it returns
\* holds at least one element handle.
C10_AtLeastOne ==
    \A s \in Sessions : wqa[s].pc = "resolved" => Len(wqa[s].result) >= 1

\* the two steps of waitAndQueryAll against the document they read
C10Step ==
    \A s \in Sessions :
        /\ (wqa[s].pc = "waiting" /\ wqa'[s].pc = "querying") =>
              \E e \in Elems : dom[s][e] = "visible"
        /\ (wqa[s].pc # "resolved" /\ wqa'[s].pc = "resolved") =>
              /\ wqa[s].pc = "querying"
              /\ wqa'[s].result = SortedSeq({e \in Elems : dom[s][e] # "absent"})
\* C10 as amended: when the wait step completes, at least one visible match
\* exists; when the call resolves, the list is exactly the matches present
\* at the moment of its queryAll step (which may be none).
C10_MatchesAtQuery == [][C10Step]_vars

\* C10 witness: the call resolved with an empty list
C10_Witness == wqa[1].pc = "resolved" /\ wqa[1].result = <<>>

\* one step of the wait of waitAndQuery in session s: it starts due timeout
\* after the call, goes on to a result only past a visible match, and while
\* the browser is open ends no other way than by its timer, at or after the
\* time it is due
C11Step(s) ==
    /\ (wqa[s].pc # "waiting" /\ wqa'[s].pc = "waiting")
          => /\ wqa'[s].timeout \in Timeouts
             /\ wqa'[s].deadline = now + wqa'[s].timeout
    /\ (wqa[s].pc = "waiting" /\ wqa'[s].pc # "waiting")
          => \/ wqa'[s].pc = "querying" /\ Visible(dom[s]) # {}
             \/ /\ wqa'[s].pc = "rejected"
                /\ wqa'[s].error = "TimeoutError"
                /\ now >= wqa[s].deadline
             \/ /\ wqa'[s].pc = "rejected"
                /\ wqa'[s].error = "TargetClosed"
                /\ browser[s] # "open"
\* C11: a waitAndQuery(selector, t) whose selector has no visible match does
\* not resolve; in an open browser it ends only by rejecting with a
\* TimeoutError, and not before t has passed since the call.
C11_TimeoutNotBefore == [][\A s \in Solo : C11Step(s)]_vars
\* a wait that timed out in an open browser whose only match is hidden
C11_Witness ==
    /\ wqa[1].pc = "rejected" /\ wqa[1].error = "TimeoutError"
    /\ browser[1] = "open" /\ closeCalls[1] = 0
    /\ Present(dom[1]) # {} /\ Visible(dom[1]) = {}

\* what url returned is the base of the session followed by the path asked
C12Returned ==
    urlCall.made => urlCall.out = create.riotserver \o urlCall.path
\* a url call changes nothing but what it hands back
C12Step ==
    (urlCall'.made /\ urlCall' # urlCall)
       => UNCHANGED <<now, create, htmlOp, lifeVars, queryVars, reloadVars,
                      newPageVars, uncaught, logVars, inputVars>>
\* C12: url(path) returns exactly the display-server base of the session
\* followed by path, no separator added or removed, and changes no state of
\* the session, its page or its browser.
C12_BaseThenPath == []C12Returned /\ [][C12Step]_vars
\* a base ending in "/" and a path starting with "/": both are kept
C12_Witness ==
    /\ urlCall.made
    /\ create.riotserver = "http://localhost:5000/"
    /\ urlCall.path = "/#/home"
    /\ urlCall.out = "http://localhost:5000//#/home"

\* everything of session s: its browser, page, listeners, calls and buffers
SessionState(s) ==
    <<browser[s], closeCalls[s], closeSeen[s], lastOp[s], dom[s], wqa[s],
      reload[s], pageDCL[s], newPage[s], browserTC[s], targets[s],
      uncaught[s], logListeners[s], consoleSeen[s], consoleBuf[s],
      netSeen[s], netPending[s], netFailed[s], networkBuf[s], xhr[s],
      input[s], rit[s], htmlOp[s]>>
\* C13: two sessions share no mutable state: a step of session a, be it an
\* operation, a timer or an event callback, leaves all of every other
\* session b unchanged.
C13_NoSharedState ==
    [][\A b \in Sessions :
          \/ SessionState(b)' = SessionState(b)
          \/ \A a \in Sessions \ {b} : ~TwoStep(a)]_vars
\* session 1 has been closed while session 2 is open and has logged a line
C13_Witness ==
    /\ browser[1] = "closed" /\ closeCalls[1] = 1
    /\ browser[2] = "open" /\ closeCalls[2] = 0
    /\ consoleBuf[2] = <<"ready\n">> /\ consoleBuf[1] = <<>>

\* C14: create rejects with the launch error, straight away and with no
\* RiotSession and no browser process made, when the browser cannot start;
\* a RiotSession exists only once create has resolved, and then it has a
\* running browser, an open page with a 1280x800 viewport, and both
\* LogBuffers subscribed to the page.
C14_LaunchErrorOrWired ==
    /\ (create.pc = "rejected" /\ create.proc = "none")
          => /\ create.error = "LaunchError"
             /\ ~create.session
             /\ create.page = "none"
    /\ create.error = "LaunchError" => create.pc = "rejected"
    /\ create.session => create.pc = "resolved"
    /\ create.pc = "resolved"
          => /\ create.session
             /\ create.proc = "running"
             /\ create.page = "open"
             /\ create.viewport = <<1280, 800>>
             /\ create.listeners = {"console", "requestfinished"}
\* a create that resolved after an earlier one failed to launch
C14_Witness ==
    /\ create.launchErrors = 1
    /\ create.pc = "resolved" /\ create.viewport = <<1280, 800>>
    /\ create.listeners = {"console", "requestfinished"}

\* C18: no browser process is left running without an owning RiotSession:
\* when create has rejected, the browser it launched is not running.
C18_NoOrphanBrowser ==
    /\ create.pc = "rejected" => create.proc # "running"
    /\ create.orphans = 0

\* C15: close() is unguarded: the session keeps no record that it was
\* closed, so every call, a second call on a closed session too, reaches
\* browser.close().
C15_EveryCloseForwards ==
    \A s \in Solo : closeCalls[s] = Len(closeSeen[s])
\* a second close() that found the browser closed and still reached it
C15_Witness ==
    closeSeen[1] = <<"open", "closed">> /\ closeCalls[1] = 2

\* C16: getOuterHTML does not read its argument but the name field, which
\* its body cannot see: for every handle the call ends in a ReferenceError
\* and hands back no outerHTML; printElements, which maps its elements
\* through getOuterHTML, ends in an error for every list as well.
C16_OuterHTMLAlwaysFails ==
    \A s \in Solo :
       /\ htmlOp[s].op = "getOuterHTML"
             => /\ htmlOp[s].outcome = "threw"
                /\ htmlOp[s].error = "ReferenceError"
                /\ htmlOp[s].value = <<>>
       /\ htmlOp[s].op = "printElements"
             => /\ htmlOp[s].outcome = "rejected"
                /\ htmlOp[s].error = "ReferenceError"
                /\ htmlOp[s].value = <<>>
\* getOuterHTML was given handle 2 of an open browser and threw
C16_Witness ==
    /\ htmlOp[1].op = "getOuterHTML" /\ htmlOp[1].arg = <<2>>
    /\ htmlOp[1].outcome = "threw" /\ browser[1] = "open"

\* C17: every waitForNewPage call settles no later than its timer would
\* fire, also when a page target was seen and target.page() fails or never
\* answers: a call that is still pending has its timer armed or its
\* target.page() lookup still outstanding.
C17_SettlesByTimer ==
    \A s \in Solo, c \in Calls :
       newPage[s][c].st = "pending"
          => newPage[s][c].timer = "armed" \/ newPage[s][c].look = "waiting"

\* one step of call c of session s: the call starts with no target taken,
\* and the target it takes is the page target created by that very step
C19Step(s, c) ==
    /\ (newPage[s][c].st = "none" /\ newPage'[s][c].st # "none")
          => /\ newPage'[s][c].tgt = 0 /\ newPage'[s][c].look = "none"
             /\ newPage'[s][c].st = "pending"
             /\ c \in Range(browserTC'[s])
    /\ newPage'[s][c].tgt # newPage[s][c].tgt
          => /\ Len(targets'[s]) = Len(targets[s]) + 1
             /\ newPage'[s][c].tgt = Len(targets'[s])
             /\ targets'[s][Len(targets'[s])] = "page"
    /\ (/\ Len(targets'[s]) = Len(targets[s]) + 1
        /\ targets'[s][Len(targets'[s])] = "page"
        /\ newPage[s][c].st = "pending" /\ newPage[s][c].tgt = 0)
          => newPage'[s][c].tgt = Len(targets'[s])
\* a resolved call hands back the page it took
C19Resolved(s, c) ==
    newPage[s][c].st = "resolved"
       => newPage[s][c].tgt # 0 /\ newPage[s][c].result = newPage[s][c].tgt
\* C19: waitForNewPage only observes targets created after the call: a page
\* that existed before the call is never handed back, so short of a further
\* page the call can only time out; and one page creation is taken by every
\* pending call, which all hand back that same page.
C19_OnlyLaterPages ==
    /\ [](\A s \in Solo, c \in Calls : C19Resolved(s, c))
    /\ [][\A s \in Solo, c \in Calls : C19Step(s, c)]_vars
\* both calls resolved with the second page; the first page, created before
\* either call, went to neither
C19_Witness ==
    /\ targets[1] = <<"page", "page">>
    /\ \A c \in Calls : newPage[1][c].st = "resolved" /\ newPage[1][c].result = 2
====
